---------------------------- MODULE Spec2Model ----------------------------
(***************************************************************************)
(* Rose Diagram Generator (src/app.py): the validation block of the        *)
(* generate request and the angular binning of generate_rose_diagram.      *)
(*                                                                         *)
(* Numbers.  Strikes are IEEE-754 doubles.  A strike is written <<d, k>>   *)
(* and stands for the real number d + k * 2^-45, d an integer number of    *)
(* degrees and k a small integer.  2^-45 is the spacing of the doubles in  *)
(* [128, 256); in [256, 512) the spacing is 2^-44, so there only even k    *)
(* are doubles and a sum that lands on an odd k is rounded to the          *)
(* neighbour whose significand is even (round-half-to-even).  Below 128    *)
(* the doubles are finer, so every <<d, k>> there is a double.             *)
(* Dips are small integers and their means are exact rationals             *)
(* <<num, den>> in lowest terms, den > 0; the rounding of np.mean's        *)
(* division is not modelled.                                               *)
(***************************************************************************)
EXTENDS Integers, Sequences, FiniteSets, TLC

VARIABLES
    strike_input,   \* text of the strike text area, as its comma/newline separated tokens
    dip_input,      \* text of the dip text area
    strikes,        \* parse_input(strike_input) of the last run
    dips,           \* parse_input(dip_input) of the last run
    errors,         \* the list `errors` of the last generate request
    view,           \* what the page shows: "info", "errors", "diagram" or the exception raised
    fig,            \* what generate_rose_diagram computed for the figure
    fig180,         \* the same for the strikes turned by 180 degrees (SpecAgg only)
    preview,        \* rows of df_preview
    csv             \* lines of the CSV offered for download

vars == <<strike_input, dip_input, strikes, dips, errors, view, fig, fig180, preview, csv>>

---------------------------------------------------------------------------
(* Program constants *)

MIN_SAMPLES == 25
bin_deg == 10
FULL_CIRCLE == 360
HALF_CIRCLE == 180

(* Bounds of the model *)
MaxBlock == 30      \* longest run of one repeated value in a text area
MaxN == 2           \* longest free measurement list given to generate_rose_diagram directly

---------------------------------------------------------------------------
(* Doubles <<d, k>> = d + k * 2^-45 *)

IsNeg(x) == x[1] < 0 \/ (x[1] = 0 /\ x[2] < 0)

Abs(n) == IF n < 0 THEN -n ELSE n

\* x is a double: its k fits the spacing of the binade |x| lies in.
IsDouble(x) ==
    LET a == IF IsNeg(x) THEN <<-x[1], -x[2]>> ELSE x
        ge256 == a[1] > 256 \/ (a[1] = 256 /\ a[2] >= 0)
        ge512 == a[1] > 512 \/ (a[1] = 512 /\ a[2] >= 0)
    IN  /\ a[1] < 1024
        /\ ge256 => a[2] % 2 = 0
        /\ ge512 => a[2] % 4 = 0

\* The double nearest to the real number x, 0 <= x < 512, ties to even.
RoundDouble(x) ==
    LET ge256 == x[1] > 256 \/ (x[1] = 256 /\ x[2] >= 0)
    IN  IF ge256 /\ x[2] % 2 = 1
        THEN IF x[2] % 4 = 1 THEN <<x[1], x[2] - 1>> ELSE <<x[1], x[2] + 1>>
        ELSE x

\* x - m * floor(x / m) as a real number, in [0, m).
FloorMod(x, m) ==
    IF x[2] < 0 /\ x[1] % m = 0 THEN <<m, x[2]>> ELSE <<x[1] % m, x[2]>>

\* numpy's x % m on doubles, m > 0: fmod, which is exact, and for a negative
\* remainder the sum fmod + m, which is rounded.
Remainder(x, m) ==
    IF IsNeg(x) THEN RoundDouble(FloorMod(x, m)) ELSE FloorMod(x, m)

\* numpy's x + c on doubles, c a whole number of degrees, x >= 0.
Plus(x, c) == RoundDouble(<<x[1] + c, x[2]>>)

\* x >= e and x < e for a whole number e.
GE(x, e) == x[1] > e \/ (x[1] = e /\ x[2] >= 0)
LT(x, e) == x[1] < e \/ (x[1] = e /\ x[2] < 0)

---------------------------------------------------------------------------
(* Rationals <<num, den>> *)

RECURSIVE GCD(_, _)
GCD(a, b) == IF b = 0 THEN a ELSE GCD(b, a % b)

Rat(n, d) ==
    LET g == GCD(Abs(n), Abs(d))
        s == IF d < 0 THEN -1 ELSE 1
    IN  <<(s * n) \div g, (s * d) \div g>>

Zero == <<0, 1>>
One == <<1, 1>>
NaN == <<0, 0>>

RatLE(a, b) == a[1] * b[2] <= b[1] * a[2]
RatLT(a, b) == a[1] * b[2] < b[1] * a[2]

\* a / b; a division by zero yields nan (numpy warns, it does not raise).
RatDiv(a, b) ==
    IF b[1] = 0 \/ a = NaN \/ b = NaN THEN NaN ELSE Rat(a[1] * b[2], a[2] * b[1])

---------------------------------------------------------------------------
(* generate_rose_diagram *)

\* np.arange(0, 360 + bin_deg, bin_deg): the 37 bin edges 0, 10, ..., 360.
bins == [i \in 1..(FULL_CIRCLE \div bin_deg + 1) |-> (i - 1) * bin_deg]

\* (bins[:-1] + bins[1:]) / 2.0, in half degrees to stay whole: one centre per bin.
bin_centers == [i \in 1..(Len(bins) - 1) |-> bins[i] + bins[i + 1]]

\* strikes = np.array(strikes) % 360
strikes_mod(S) == [j \in 1..Len(S) |-> Remainder(S[j], FULL_CIRCLE)]

\* az = strikes % 180
az(S) ==
    LET wrapped == strikes_mod(S)
    IN  [j \in 1..Len(S) |-> Remainder(wrapped[j], HALF_CIRCLE)]

\* az_full = np.concatenate([az, az + 180])
az_full(S) ==
    LET folded == az(S)
    IN  folded \o [j \in 1..Len(S) |-> Plus(folded[j], HALF_CIRCLE)]

\* Faulty variant: the second half of the dips is concatenated in reverse order.
dips_full_reversed(D) == D \o [j \in 1..Len(D) |-> D[Len(D) + 1 - j]]

\* dips_full = np.concatenate([dips_folded, dips_folded])
dips_full(D) == D \o D

\* idx = (az_full >= bins[i]) & (az_full < bins[i+1]), as the set of positions that are True
idx(azf, i) == {j \in 1..Len(azf) : GE(azf[j], bins[i]) /\ LT(azf[j], bins[i + 1])}

\* The sum of f[j] over the positions j of lo..hi, by halves.
RECURSIVE SumRange(_, _, _)
SumRange(f, lo, hi) ==
    IF lo > hi THEN 0
    ELSE IF lo = hi THEN f[lo]
    ELSE LET mid == (lo + hi) \div 2
         IN  SumRange(f, lo, mid) + SumRange(f, mid + 1, hi)

\* np.mean(dips_full[idx])
mean(df, js) ==
    Rat(SumRange([j \in 1..Len(df) |-> IF j \in js THEN df[j] ELSE 0], 1, Len(df)),
        Cardinality(js))

\* dip_means[i] after the loop
dip_mean(azf, df, i) ==
    LET mask == idx(azf, i)
    IN  IF Cardinality(mask) > 0 THEN mean(df, mask) ELSE Zero

\* dip_means.max()
dip_max(m) ==
    CHOOSE x \in {m[i] : i \in 1..Len(m)} : \A i \in 1..Len(m) : RatLE(m[i], x)

\* Faulty variant: the division is taken whatever dip_max is.
dip_norm_unguarded(m) ==
    LET top == dip_max(m)
    IN  [i \in 1..Len(m) |-> RatDiv(m[i], top)]

\* Faulty variant: the means are not divided at all.
dip_norm_undivided(m) == m

\* dip_norm = dip_means / dip_max if dip_max > 0 else dip_means
dip_norm(m) ==
    LET top == dip_max(m)
    IN  IF RatLT(Zero, top) THEN [i \in 1..Len(m) |-> RatDiv(m[i], top)] ELSE m

\* dips_full[idx] raises IndexError when the mask and the array differ in length;
\* the line runs only for a bin with count > 0.
IndexErrorRaised(azf, df) ==
    Len(azf) # Len(df) /\ \E i \in 1..Len(bin_centers) : idx(azf, i) # {}

NoFig == [raised |-> "not run", az_full |-> <<>>, dips_full |-> <<>>,
          counts |-> <<>>, dip_means |-> <<>>, dip_norm |-> <<>>]

\* What generate_rose_diagram(S, D) computes before it draws.
generate_rose_diagram(S, D) ==
    LET azf == az_full(S)
        df == dips_full(D)
    IN  IF IndexErrorRaised(azf, df)
        THEN [NoFig EXCEPT !.raised = "IndexError", !.az_full = azf, !.dips_full = df]
        ELSE LET c == [i \in 1..Len(bin_centers) |-> Cardinality(idx(azf, i))]
                 m == [i \in 1..Len(bin_centers) |-> dip_mean(azf, df, i)]
             IN  [raised |-> "none", az_full |-> azf, dips_full |-> df,
                  counts |-> c, dip_means |-> m, dip_norm |-> dip_norm(m)]

---------------------------------------------------------------------------
(* The page: text areas, parse_input and the generate request *)

\* A token of a text area, between two separators: a number (written as the
\* double float() returns for it), nothing but blanks, or text that is no number.
Num(v) == [kind |-> "num", val |-> v]
Blank == [kind |-> "blank", val |-> 0]
NotANumber == [kind |-> "text", val |-> 0]

IsNum(t) == t.kind = "num"
NonBlank(t) == t.kind # "blank"

\* parse_input: blank tokens are dropped, float() raises ValueError on the rest
\* that are no numbers.
parse_input(text) ==
    LET kept == SelectSeq(text, NonBlank)
    IN  IF \E j \in 1..Len(kept) : ~IsNum(kept[j])
        THEN [raised |-> "ValueError", values |-> <<>>]
        ELSE [raised |-> "none", values |-> [j \in 1..Len(kept) |-> kept[j].val]]

\* The validation block: the list `errors` for the parsed lists S and D.
StrikeErrors(S) ==
    IF Len(S) = 0 THEN << <<"strike empty">> >>
    ELSE IF Len(S) < MIN_SAMPLES THEN << <<"strike min", Len(S)>> >>
    ELSE <<>>

\* Faulty variant: a dip list of exactly MIN_SAMPLES entries is reported as too short.
DipErrorsOffByOne(D) ==
    IF Len(D) = 0 THEN << <<"dip empty">> >>
    ELSE IF Len(D) <= MIN_SAMPLES THEN << <<"dip min", Len(D)>> >>
    ELSE <<>>

DipErrors(D) ==
    IF Len(D) = 0 THEN << <<"dip empty">> >>
    ELSE IF Len(D) < MIN_SAMPLES THEN << <<"dip min", Len(D)>> >>
    ELSE <<>>

MismatchErrors(S, D) ==
    IF Len(S) # Len(D) THEN << <<"mismatch", Len(S), Len(D)>> >> ELSE <<>>

\* Faulty variant: the checks stop at the first violation.
ValidateFirstOnly(S, D) ==
    IF StrikeErrors(S) # <<>> THEN StrikeErrors(S)
    ELSE IF DipErrors(D) # <<>> THEN DipErrors(D)
    ELSE MismatchErrors(S, D)

Validate(S, D) == StrikeErrors(S) \o DipErrors(D) \o MismatchErrors(S, D)

\* Faulty variant: a single error does not stop the request.
RejectedIfSeveral(errs) == Len(errs) > 1

\* `if errors:` -- the errors are shown and nothing else is done.
Rejected(errs) == errs # <<>>

\* df_preview and its to_csv(index=False, sep=';')
df_preview(S, D) == [j \in 1..Len(S) |-> <<S[j], D[j]>>]
to_csv(df) == << <<"Strike", "Dip">> >> \o df

Block(v, n) == [j \in 1..n |-> Num(v)]

StrikeHeads == {<<10, 0>>}
StrikeTails == {<<>>, <<Num(<<180, -1>>)>>, <<Num(<<370, 0>>)>>, <<Blank>>, <<NotANumber>>}
DipHeads == {50}
DipTails == {<<>>, <<Num(-60)>>, <<Num(0)>>}

\* The texts a user may leave in a text area: a run of one value, then at most one more token.
StrikeTexts == {Block(h, n) \o t : h \in StrikeHeads, n \in 0..MaxBlock, t \in StrikeTails}
DipTexts == {Block(h, n) \o t : h \in DipHeads, n \in 0..MaxBlock, t \in DipTails}

\* A run of the script without the button: the else branch shows the instructions.
ShowInfo ==
    /\ view' = "info"
    /\ strikes' = <<>> /\ dips' = <<>> /\ errors' = <<>>
    /\ fig' = NoFig /\ preview' = <<>> /\ csv' = <<>>
    /\ UNCHANGED fig180

EditStrike(text) ==
    /\ text # strike_input
    /\ strike_input' = text
    /\ UNCHANGED dip_input
    /\ ShowInfo

EditDip(text) ==
    /\ text # dip_input
    /\ dip_input' = text
    /\ UNCHANGED strike_input
    /\ ShowInfo

\* A run of the script with generate_button True.
Generate ==
    LET ps == parse_input(strike_input)
        pd == parse_input(dip_input)
        S == ps.values
        D == pd.values
        errs == Validate(S, D)
        f == generate_rose_diagram(S, D)
        parsed == ps.raised = "none" /\ pd.raised = "none"
        ran == parsed /\ ~Rejected(errs)
        shown == ran /\ f.raised = "none"
    IN  /\ UNCHANGED <<strike_input, dip_input, fig180>>
        /\ strikes' = IF ps.raised = "none" THEN S ELSE <<>>
        /\ dips' = IF parsed THEN D ELSE <<>>
        /\ errors' = IF parsed THEN errs ELSE <<>>
        /\ fig' = IF ran THEN f ELSE NoFig
        /\ view' = IF ~parsed THEN "ValueError"
                   ELSE IF Rejected(errs) THEN "errors"
                   ELSE IF f.raised # "none" THEN f.raised
                   ELSE "diagram"
        /\ preview' = IF shown THEN df_preview(S, D) ELSE <<>>
        /\ csv' = IF shown THEN to_csv(df_preview(S, D)) ELSE <<>>

Init ==
    /\ strike_input = <<>> /\ dip_input = <<>>
    /\ strikes = <<>> /\ dips = <<>> /\ errors = <<>>
    /\ view = "info"
    /\ fig = NoFig /\ fig180 = NoFig
    /\ preview = <<>> /\ csv = <<>>

Next ==
    \/ \E text \in StrikeTexts : EditStrike(text)
    \/ \E text \in DipTexts : EditDip(text)
    \/ Generate

Spec == Init /\ [][Next]_vars

---------------------------------------------------------------------------
(* generate_rose_diagram as a function of its two lists *)

StrikeVals ==
    {x \in {<<10, 0>>, <<370, 0>>, <<-10, 0>>, <<95, 0>>,
            <<180, -1>>, <<0, -1>>, <<80, -1>>} : IsDouble(x)}
DipVals == {0, 50, -60}
Pairs == StrikeVals \X DipVals
BlockPairs == {<<<<10, 0>>, 50>>, <<<<10, 0>>, 0>>}

\* The measurement lists: up to MaxN free pairs, or MIN_SAMPLES copies of one
\* pair followed by at most one free pair.
FreeLists == UNION {[1..n -> Pairs] : n \in 0..MaxN}
MeasurementLists ==
    FreeLists \cup {[j \in 1..MIN_SAMPLES |-> b] \o l : b \in BlockPairs,
                                                      l \in {<<>>} \cup {<<p>> : p \in Pairs}}

\* The strike s turned by half a circle, (s + 180) mod 360, as a real number.
Turned(s) == FloorMod(<<s[1] + HALF_CIRCLE, s[2]>>, FULL_CIRCLE)
TurnedList(S) == [j \in 1..Len(S) |-> Turned(S[j])]

InitAgg ==
    /\ \E l \in MeasurementLists :
          /\ strikes = [j \in 1..Len(l) |-> l[j][1]]
          /\ dips = [j \in 1..Len(l) |-> l[j][2]]
    /\ strike_input = <<>> /\ dip_input = <<>> /\ errors = <<>>
    /\ view = "info"
    /\ fig = NoFig /\ fig180 = NoFig
    /\ preview = <<>> /\ csv = <<>>

Aggregate ==
    /\ fig = NoFig
    /\ fig' = generate_rose_diagram(strikes, dips)
    /\ UNCHANGED <<strike_input, dip_input, strikes, dips, errors, view, fig180, preview, csv>>

\* The same call on the turned strikes, when every turned strike is a double.
AggregateTurned ==
    /\ fig # NoFig /\ fig180 = NoFig
    /\ \A j \in 1..Len(strikes) : IsDouble(Turned(strikes[j]))
    /\ fig180' = generate_rose_diagram(TurnedList(strikes), dips)
    /\ UNCHANGED <<strike_input, dip_input, strikes, dips, errors, view, fig, preview, csv>>

NextAgg == Aggregate \/ AggregateTurned

SpecAgg == InitAgg /\ [][NextAgg]_vars

---------------------------------------------------------------------------
(* Properties of generate_rose_diagram, under SpecAgg *)

Aggregated == fig.raised = "none"

BinIndexes == 1..(FULL_CIRCLE \div bin_deg)

\* The value v lies in the i-th bin, [10 (i - 1), 10 i).
InBin(v, i) == GE(v, bin_deg * (i - 1)) /\ LT(v, bin_deg * i)

\* C1: count conservation -- for strike and dip lists of length N the counts
\* of the 36 bins sum to exactly 2 * N.
CountConservation ==
    Aggregated => SumRange(fig.counts, 1, Len(fig.counts)) = 2 * Len(strikes)

\* C6: bin coverage without overlap -- every entry of the folded and doubled
\* azimuth array lies in [0, 360) and is counted in exactly one bin, the bin i
\* with 10 i <= value < 10 (i + 1); a value on an edge is counted in the bin
\* that starts there only.
BinCoverage ==
    Aggregated =>
        /\ \A j \in 1..Len(fig.az_full) :
              /\ GE(fig.az_full[j], 0) /\ LT(fig.az_full[j], FULL_CIRCLE)
              /\ Cardinality({i \in BinIndexes : InBin(fig.az_full[j], i)}) = 1
        /\ \A i \in BinIndexes :
              fig.counts[i] = Cardinality({j \in 1..Len(fig.az_full) : InBin(fig.az_full[j], i)})

\* C10: point symmetry -- all 36 bins are emitted, and bin i and the bin half
\* a circle away have equal count and equal mean_dip.
PointSymmetry ==
    Aggregated =>
        /\ Len(fig.counts) = 2 * (HALF_CIRCLE \div bin_deg)
        /\ Len(fig.dip_means) = 2 * (HALF_CIRCLE \div bin_deg)
        /\ \A i \in 1..(HALF_CIRCLE \div bin_deg) :
              /\ fig.counts[i] = fig.counts[i + HALF_CIRCLE \div bin_deg]
              /\ fig.dip_means[i] = fig.dip_means[i + HALF_CIRCLE \div bin_deg]

\* C5: axial fold -- the strikes S and the strikes (s + 180) mod 360, with the
\* same dips, give the same count, mean_dip and normalized_dip in every bin.
AxialFold ==
    (Aggregated /\ fig180.raised = "none") =>
        /\ fig180.counts = fig.counts
        /\ fig180.dip_means = fig.dip_means
        /\ fig180.dip_norm = fig.dip_norm

\* The input passes the validation block.
Accepted == Validate(strikes, dips) = <<>>

InUnitInterval(x) == RatLE(Zero, x) /\ RatLE(x, One)

\* C3 as stated: for any accepted input, whatever its dip values, every bin's
\* normalized_dip lies in [0, 1], and when some dip is positive some bin has
\* normalized_dip = 1.
NormalizationBoundAnyDips ==
    (Aggregated /\ Accepted) =>
        /\ \A i \in BinIndexes : InUnitInterval(fig.dip_norm[i])
        /\ (\E j \in 1..Len(dips) : dips[j] > 0) => \E i \in BinIndexes : fig.dip_norm[i] = One

\* C3 amended: for any accepted input whose dip values are all non-negative,
\* every bin's normalized_dip lies in [0, 1], and when some dip is positive
\* some bin has normalized_dip = 1.
NormalizationBound ==
    (Aggregated /\ Accepted /\ \A j \in 1..Len(dips) : dips[j] >= 0) =>
        /\ \A i \in BinIndexes : InUnitInterval(fig.dip_norm[i])
        /\ (\E j \in 1..Len(dips) : dips[j] > 0) => \E i \in BinIndexes : fig.dip_norm[i] = One

\* An accepted input with dips 0 and 50 in different bins: normalized_dip 1, and 0 in a filled bin.
NormalizationBoundWitness ==
    /\ Aggregated /\ Accepted
    /\ \A j \in 1..Len(dips) : dips[j] >= 0
    /\ \E j \in 1..Len(dips) : dips[j] > 0
    /\ \E i \in BinIndexes : fig.dip_norm[i] = One
    /\ \E i \in BinIndexes : fig.counts[i] > 0 /\ fig.dip_norm[i] = Zero

\* C7: zero-safe normalization -- when every dip is 0, every bin's mean_dip
\* and normalized_dip is 0, and no division by zero has produced a nan.
ZeroSafe ==
    (Aggregated /\ \A j \in 1..Len(dips) : dips[j] = 0) =>
        \A i \in BinIndexes : fig.dip_means[i] = Zero /\ fig.dip_norm[i] = Zero

\* Some measurements, all of dip 0, have been aggregated.
ZeroSafeWitness ==
    /\ Aggregated /\ Len(dips) >= MIN_SAMPLES
    /\ \A j \in 1..Len(dips) : dips[j] = 0
    /\ \E i \in BinIndexes : fig.counts[i] > 0

\* The azimuth of measurement j in the half h of the doubled circle.
Azimuth(j, h) ==
    LET a == Remainder(Remainder(strikes[j], FULL_CIRCLE), HALF_CIRCLE)
    IN  IF h = 0 THEN a ELSE Plus(a, HALF_CIRCLE)

\* The doubled samples <<j, h>> whose azimuth falls in bin i.
SamplesIn(i) == {p \in (1..Len(strikes)) \X {0, 1} : InBin(Azimuth(p[1], p[2]), i)}

\* The sum of dip[j] over the samples ps, a measurement counting once per half it is in.
SumDips(ps) ==
    SumRange([j \in 1..Len(dips) |-> dips[j] * Cardinality({h \in {0, 1} : <<j, h>> \in ps})],
             1, Len(dips))

\* Every bin's mean_dip is the mean of dip[j] over the samples of strike[j] in the bin, 0 for none.
PairingPreserved ==
    \A i \in BinIndexes :
        LET ps == SamplesIn(i)
        IN  /\ fig.counts[i] = Cardinality(ps)
            /\ fig.dip_means[i] = IF ps = {} THEN Zero ELSE Rat(SumDips(ps), Cardinality(ps))

\* 25 strikes of 10 with 25 dips of 50.
ScenarioA ==
    /\ strikes = [j \in 1..MIN_SAMPLES |-> <<10, 0>>]
    /\ dips = [j \in 1..MIN_SAMPLES |-> 50]

\* Count 25, mean_dip 50, normalized_dip 1 in the bins a and b; count 0, mean_dip 0 in the 34 others.
OnlyBins(a, b) ==
    \A i \in BinIndexes :
        IF i \in {a, b}
        THEN fig.counts[i] = MIN_SAMPLES /\ fig.dip_means[i] = <<50, 1>> /\ fig.dip_norm[i] = One
        ELSE fig.counts[i] = 0 /\ fig.dip_means[i] = Zero

\* C9 as stated: mean_dip keeps the strike/dip pairing, and 25 strikes of 10
\* with dips of 50 fill the bins [0, 10) and [180, 190).
PairingAndScenarioFirstBin ==
    Aggregated => (PairingPreserved /\ (ScenarioA => OnlyBins(1, 19)))

\* C9 amended: mean_dip keeps the strike/dip pairing (0 for an empty bin), and
\* 25 strikes of 10 with dips of 50 give count 25, mean_dip 50, normalized_dip
\* 1 in the bins [10, 20) and [190, 200), count 0 and mean_dip 0 in the others.
PairingAndScenario ==
    Aggregated => (PairingPreserved /\ (ScenarioA => OnlyBins(2, 20)))

PairingAndScenarioWitness == Aggregated /\ ScenarioA /\ fig.counts[2] = MIN_SAMPLES

---------------------------------------------------------------------------
(* Properties of the generate request, under Spec *)

\* The last run was a generate request that reached the validation block.
Validated == view \notin {"info", "ValueError"}

When(cond, e) == IF cond THEN <<e>> ELSE <<>>

\* One error for each of the five rules that is violated, in the order of the rules.
OnePerRule(m, n) ==
    When(m = 0, <<"strike empty">>) \o When(m < MIN_SAMPLES, <<"strike min", m>>)
    \o When(n = 0, <<"dip empty">>) \o When(n < MIN_SAMPLES, <<"dip min", n>>)
    \o When(m # n, <<"mismatch", m, n>>)

\* C2 as stated: the five rules are all checked and the error list holds
\* exactly one error per violated rule, in rule order.
ValidatorOnePerRule ==
    Validated => errors = OnePerRule(Len(strikes), Len(dips))

\* The rank of an error in the order strike, dip, mismatch.
Group(e) == IF e[1] \in {"strike empty", "strike min"} THEN 1
            ELSE IF e[1] \in {"dip empty", "dip min"} THEN 2 ELSE 3

Reported(e) == \E a \in 1..Len(errors) : errors[a] = e

\* C2 amended: the strike check, the dip check and the length check are all
\* made, none stops the others; an empty list is reported as empty only (not
\* also as shorter than 25), a non-empty list shorter than 25 is reported with
\* its count, unequal lengths are reported with both counts; the error list
\* holds exactly these errors, strike before dip before mismatch.
ValidatorOnePerField ==
    Validated =>
        LET m == Len(strikes)
            n == Len(dips)
        IN  /\ Reported(<<"strike empty">>) <=> m = 0
            /\ Reported(<<"strike min", m>>) <=> (0 < m /\ m < MIN_SAMPLES)
            /\ Reported(<<"dip empty">>) <=> n = 0
            /\ Reported(<<"dip min", n>>) <=> (0 < n /\ n < MIN_SAMPLES)
            /\ Reported(<<"mismatch", m, n>>) <=> m # n
            /\ Len(errors) = Cardinality({g \in {1, 2, 3} :
                                \/ g = 1 /\ m < MIN_SAMPLES
                                \/ g = 2 /\ n < MIN_SAMPLES
                                \/ g = 3 /\ m # n})
            /\ \A a, b \in 1..Len(errors) : a < b => Group(errors[a]) < Group(errors[b])

\* An empty strike list against a short dip list: three errors, one of them "empty".
ValidatorOnePerFieldWitness ==
    /\ view = "errors"
    /\ Len(strikes) = 0 /\ Len(dips) > 0 /\ Len(dips) < MIN_SAMPLES
    /\ Len(errors) = 3

\* C8: for m >= 1 strikes and n >= 1 dips the error list is the strike
\* min-sample error if m < 25, then the dip min-sample error if n < 25, then
\* the mismatch error if m # n; so 10 against 30 gives two errors (strike
\* min-sample, mismatch), 2 against 2 two min-sample errors, 25 against 24 a
\* dip min-sample error and a mismatch error.
ValidatorNonEmpty ==
    LET m == Len(strikes)
        n == Len(dips)
    IN  (Validated /\ m >= 1 /\ n >= 1) =>
            /\ errors = When(m < MIN_SAMPLES, <<"strike min", m>>)
                        \o When(n < MIN_SAMPLES, <<"dip min", n>>)
                        \o When(m # n, <<"mismatch", m, n>>)
            /\ (m = 10 /\ n = 30) => errors = << <<"strike min", 10>>, <<"mismatch", 10, 30>> >>
            /\ (m = 2 /\ n = 2) => errors = << <<"strike min", 2>>, <<"dip min", 2>> >>
            /\ (m = 25 /\ n = 24) => errors = << <<"dip min", 24>>, <<"mismatch", 25, 24>> >>

\* 10 strikes against 30 dips have been submitted and rejected.
ValidatorNonEmptyWitness ==
    view = "errors" /\ Len(strikes) = 10 /\ Len(dips) = 30 /\ Len(errors) = 2

\* C4: generate_rose_diagram is invoked if and only if the error list is
\* empty; when it runs the two lists have the same length, at least 25; when
\* a rule is violated the errors are shown and no diagram, success message,
\* preview or CSV is produced.
ValidationGatesAggregation ==
    Validated =>
        /\ fig # NoFig <=> errors = <<>>
        /\ fig # NoFig => (Len(strikes) = Len(dips) /\ Len(strikes) >= MIN_SAMPLES)
        /\ errors # <<>> => (view = "errors" /\ fig = NoFig /\ preview = <<>> /\ csv = <<>>)
        /\ errors = <<>> => (view = "diagram" /\ preview # <<>> /\ csv # <<>>)

\* A diagram has been produced for an accepted input.
ValidationGatesAggregationWitness ==
    view = "diagram" /\ fig.raised = "none" /\ errors = <<>> /\ Len(strikes) > MIN_SAMPLES

=============================================================================
